---------------------------- MODULE Spec2Model ----------------------------
(***************************************************************************)
(* KolonaKufiri: the aggregation and estimation engine.                    *)
(*                                                                         *)
(*   computeSmartLevel          app/(tabs)/index.tsx   (LevelEstimator)    *)
(*   buildLineBuckets15minAll   unnamed/part_001       (SeriesBuilder)     *)
(*   buildLineBuckets15min      unnamed/part_001       (directional)       *)
(*                                                                         *)
(* Numbers.  The source computes in IEEE doubles; the model computes in    *)
(* exact integers and fractions:                                           *)
(*  - Estimator time is counted in ticks of 12*ln(2) minutes, the half-    *)
(*    life of the recency weight, so that Math.exp(-minutes/12) is exactly *)
(*    2^(-age) for an age of a whole number of ticks.  Weights are kept    *)
(*    as integer multiples of 2^(-MaxTicks) (WeightOne stands for 1.0);    *)
(*    a double holds every such sum exactly.                               *)
(*  - Math.exp underflows: 2^(-age) is 0 in a double once age >= 1075      *)
(*    ticks (about 6.2 days).  The stamp 0 stands for such a report.       *)
(*  - Averages are fractions [num, den] in lowest terms.                   *)
(*  - Series-builder time is in milliseconds, as in the source.            *)
(***************************************************************************)
EXTENDS Integers, Sequences, FiniteSets

VARIABLES
    reports,     \* computeSmartLevel's argument: Seq of Report
    clock,       \* Date.now(), in ticks
    live,        \* <<>> or <<r>>: r the value the last call of computeSmartLevel returned
    liveNow,     \* the value that call read into its local `now`
    reportsB,    \* a second argument, for comparing two calls made at the same time
    liveB,       \* <<>> or <<r>>: the value returned for reportsB
    dayReports,  \* the series builders' argument: Seq of DayReport
    startDayMs,  \* the series builders' startDayMs
    line,        \* <<>> or <<b>>: b the array buildLineBuckets15minAll returned
    lineDir,     \* <<>> or <<b>>: b the array buildLineBuckets15min returned
    dir,         \* the dir handed to that call of buildLineBuckets15min
    summary,     \* <<>> or <<s>>: s the value summarizeDayAll returned
    daySummary,  \* <<>> or <<s>>: s the value summarizeDayAllDirs returned
    summaryDir,  \* <<>> or <<s>>: s the value summarizeDay returned for dir
    avgIn,       \* statusFromAvg's argument, a fraction
    avgStatus,   \* <<>> or <<s>>: s the value statusFromAvg returned
    dayStatus,   \* <<>> or <<s>>: s the value dayStatusFromAvg returned
    nowMs,       \* Date.now() on the device, in ms
    selected,    \* HomeScreen's state selected, by its id
    deviceId,    \* HomeScreen's state deviceId: <<>> (null) or <<id>>
    submitting,  \* HomeScreen's state submitting
    lastVoteLevel, \* HomeScreen's state lastVoteLevel: <<>> (null) or <<level>>
    closure,     \* the state values the handlers of the last render captured
    secureStore, \* the device's key-value store: key -> <<>> (no item) or <<number>>
    db,          \* the documents addDoc has written to "reports", in order
    calls,       \* the calls of submit: call -> [pc, borderId, waitLevel, now]
    reportsToday, \* HomeScreen's state reportsToday
    listener,    \* <<>> or <<b>>: b the borderId the live onSnapshot query asks for
    liveTick,    \* HomeScreen's state liveTick
    timerDue,    \* when the 30-second interval fires next, in ms
    liveReports, \* the memoised liveReports, the argument of computeSmartLevel
    liveAt,      \* the Date.now() the memo of liveReports read last
    liveStale,   \* reportsToday or liveTick was set after the last render
    tomtomKey,   \* the constant TOMTOM_KEY of the build
    apiTraffic,  \* HomeScreen's state apiTraffic: <<>> (null) or <<data>>
    apiLoading,  \* HomeScreen's state apiLoading
    apiError,    \* HomeScreen's state apiError: <<>> (null) or <<message>>
    apiCache,    \* the module's apiCache: [ts, data], data <<>> (null) or <<data>>
    apiEffect,   \* <<>> or <<e>>: e the run of the traffic effect in force
    apiTimerDue, \* when the interval of that run fires next, in ms
    apiCalls,    \* the calls of getHanEleziTrafficDirect that fetch
    newestTs,    \* history: the largest apiCache.ts stored so far, -1 if none
    levelEffect, \* <<>> or <<b>>: b the selected.id the last-vote effect ran for last
    levelReads   \* the borders a call of getLastVoteLevel is pending for

estVars == <<reports, clock, live, liveNow>>
pairVars == <<reportsB, liveB>>
lineVars == <<dayReports, startDayMs, line, lineDir, dir>>
sumVars == <<summary, daySummary, summaryDir>>
statusVars == <<avgIn, avgStatus, dayStatus>>
homeVars == <<nowMs, selected, deviceId, submitting, lastVoteLevel, closure,
              secureStore, db, calls>>
screenVars == <<reportsToday, listener>>
liveVars == <<liveTick, timerDue, liveReports, liveAt, liveStale>>
apiVars == <<tomtomKey, apiTraffic, apiLoading, apiError, apiCache, apiEffect,
             apiTimerDue, apiCalls, newestTs>>
levelVars == <<levelEffect, levelReads>>
otherVars == <<sumVars, statusVars, homeVars, screenVars, liveVars, apiVars, levelVars>>
vars == <<estVars, pairVars, lineVars, otherVars>>

-----------------------------------------------------------------------------
(* Bounds of the model *)

MaxVotes == 2      \* longest list of freely chosen reports
MaxVolume == 10    \* longest list of equal-stamp reports (confidence tiers)
MaxTicks == 1      \* how far the clock advances
MaxDayVotes == 2   \* longest list handed to the series builders
MaxSumVotes == 3   \* longest list handed to the summaries alone
MaxSubmits == 2    \* calls of submit
MaxSubmitTicks == 2  \* how far the device clock advances around them
MaxDocs == 2       \* documents in the collection "reports"
MaxLiveTicks == 4  \* how far the device clock advances under the live window
MaxApiCalls == 3   \* calls of getHanEleziTrafficDirect that fetch
MaxApiTicks == 3   \* how far the device clock advances around them
MaxFairSubmits == 1  \* calls of submit on a device that may have voted before

(* Math.exp(-x) is 0 from x = 1075*ln 2 on (the least double is 2^-1074) *)
EXP_UNDERFLOW == 1075

T0 == EXP_UNDERFLOW                  \* the clock's first reading
WeightOne == 2 ^ MaxTicks            \* the integer that stands for weight 1.0

LevelInputs == -1 .. 4               \* waitLevel as stored: 0..3 and out of range
TimeStamps == {0} \cup (T0 .. T0 + MaxTicks)
Report == [waitLevel : LevelInputs, createdAtMs : TimeStamps]

-----------------------------------------------------------------------------
(* Shared numeric primitives *)

Max(a, b) == IF a >= b THEN a ELSE b
Min(a, b) == IF a <= b THEN a ELSE b
Abs(x) == IF x >= 0 THEN x ELSE -x

RECURSIVE GCD(_, _)
GCD(a, b) == IF b = 0 THEN a ELSE GCD(b, a % b)

(* the double n/d, d > 0, as a fraction in lowest terms *)
Frac(n, d) == LET g == GCD(Abs(n), d) IN [num |-> n \div g, den |-> d \div g]

(* a slip: a value outside a..b is replaced by a *)
clampReset(n, a, b) == IF n < a \/ n > b THEN a ELSE n

clamp(n, a, b) == Max(a, Min(b, n))

(* a slip: Math.floor in place of Math.round *)
MathFloor(n, d) == n \div d

(* Math.round(n/d) for d > 0: the nearest integer, halves upwards *)
MathRound(n, d) == (2 * n + d) \div (2 * d)

(* a slip: no decay, every vote weighs 1 *)
expWeightFlat(minutes) == 2 ^ MaxTicks

(* Math.exp(-minutes / 12), as a multiple of 2^(-MaxTicks) *)
expWeight(minutes) ==
    IF minutes >= EXP_UNDERFLOW THEN 0 ELSE 2 ^ (MaxTicks - minutes)

-----------------------------------------------------------------------------
(* computeSmartLevel *)

(* a slip: the empty result reports level 1 *)
BaselineLight ==
    [level |-> 1, count |-> 0, confidence |-> "Low",
     buckets |-> [i \in 0 .. 3 |-> 0], avg |-> [num |-> 0, den |-> 1]]

Baseline ==
    [level |-> 0, count |-> 0, confidence |-> "Low",
     buckets |-> [i \in 0 .. 3 |-> 0], avg |-> Frac(0, 1)]

(* for (const r of reports) { ... buckets[lvl] += weight }                  *)
(* an index outside 0..3 would add a stray property and leave 0..3 alone    *)
RECURSIVE accumulate(_, _, _)
accumulate(rs, now, buckets) ==
    IF rs = << >> THEN buckets
    ELSE LET r == Head(rs)
             minutes == Max(0, now - r.createdAtMs)
             weight == expWeight(minutes)
             lvl == clamp(r.waitLevel, 0, 3)
         IN  accumulate(Tail(rs), now,
                 IF lvl \in DOMAIN buckets
                 THEN [buckets EXCEPT ![lvl] = @ + weight]
                 ELSE buckets)

(* [0, 1, 2, 3].sort((a, b) => buckets[b] - buckets[a]): heaviest first,    *)
(* and, the sort being stable, equal weights in ascending level order       *)
sortIdxs(buckets) ==
    CHOOSE s \in [0 .. 3 -> 0 .. 3] :
        /\ \A l \in 0 .. 3 : \E i \in 0 .. 3 : s[i] = l
        /\ \A i \in 0 .. 2 :
              \/ buckets[s[i]] > buckets[s[i + 1]]
              \/ buckets[s[i]] = buckets[s[i + 1]] /\ s[i] < s[i + 1]

(* a slip: top2w >= top1w * 0, true of every pair of weights *)
closeEnoughAlways(top1w, top2w) == top2w >= 0

(* a slip: top2w >= top1w * 0.8 *)
closeEnoughTight(top1w, top2w) == 10 * top2w >= 8 * top1w

(* top2w >= top1w * 0.7 *)
closeEnough(top1w, top2w) == 10 * top2w >= 7 * top1w

(* Math.abs(top1 - top2) >= 2 *)
farApart(top1, top2) == Abs(top1 - top2) >= 2

(* a slip: Math.round(top1 + top2), neither halved nor clamped *)
midLevelSum(top1, top2) == top1 + top2

(* clamp(Math.round((top1 + top2) / 2), 0, 3) *)
midLevel(top1, top2) == clamp(MathRound(top1 + top2, 2), 0, 3)

(* Math.abs(avg - top1) < 0.35, avg = num/den *)
nearTop(num, den, top1) == 20 * Abs(num - top1 * den) < 7 * den

(* a slip: count > 10 ? "High" : count > 4 ? "Medium" : "Low" *)
confidenceOfStrict(count) ==
    IF count > 10 THEN "High" ELSE IF count > 4 THEN "Medium" ELSE "Low"

(* count >= 10 ? "High" : count >= 4 ? "Medium" : "Low" *)
confidenceOf(count) ==
    IF count >= 10 THEN "High" ELSE IF count >= 4 THEN "Medium" ELSE "Low"

(* the body of computeSmartLevel after `const now = Date.now()` *)
smartLevel(rs, now) ==
    LET buckets == accumulate(rs, now, [i \in 0 .. 3 |-> 0])
        total == buckets[0] + buckets[1] + buckets[2] + buckets[3]
        wSum == IF total = 0 THEN WeightOne ELSE total
        num == 0 * buckets[0] + 1 * buckets[1] + 2 * buckets[2] + 3 * buckets[3]
        idxs == sortIdxs(buckets)
        top1 == idxs[0]
        top2 == idxs[1]
        top1w == buckets[top1]
        top2w == buckets[top2]
        level == IF farApart(top1, top2) /\ closeEnough(top1w, top2w)
                 THEN midLevel(top1, top2)
                 ELSE IF nearTop(num, wSum, top1) THEN top1
                      ELSE clamp(MathRound(num, wSum), 0, 3)
        count == Len(rs)
    IN  [level |-> level, count |-> count, confidence |-> confidenceOf(count),
         buckets |-> buckets, avg |-> Frac(num, wSum)]

(* computeSmartLevel(reports): the clock is read inside, it is no argument *)
computeSmartLevel(rs) ==
    IF Len(rs) = 0 THEN Baseline ELSE smartLevel(rs, clock)

-----------------------------------------------------------------------------
(* buildLineBuckets15minAll and buildLineBuckets15min *)

LINE_BUCKET_MIN == 15
LINE_BUCKET_MS == LINE_BUCKET_MIN * 60 * 1000

(* a slip: the bucket width in ms where the width in minutes is meant *)
LINE_POINTS_MS == (24 * 60) \div LINE_BUCKET_MS

LINE_POINTS == (24 * 60) \div LINE_BUCKET_MIN

(* Array.from({ length: LINE_POINTS }, () => ({ sum: 0, count: 0, avg: 0 })) *)
emptyBuckets ==
    [i \in 0 .. LINE_POINTS - 1 |-> [sum |-> 0, count |-> 0, avg |-> Frac(0, 1)]]

(* a slip: the index is clamped into the day instead of being tested *)
bucketIdxClamped(createdAtMs, startMs) ==
    clamp((createdAtMs - startMs) \div LINE_BUCKET_MS, 0, LINE_POINTS - 1)

(* a slip: Math.round in place of Math.floor *)
bucketIdxRound(createdAtMs, startMs) ==
    (2 * (createdAtMs - startMs) + LINE_BUCKET_MS) \div (2 * LINE_BUCKET_MS)

(* Math.floor((r.createdAtMs - startDayMs) / LINE_BUCKET_MS) *)
bucketIdx(createdAtMs, startMs) == (createdAtMs - startMs) \div LINE_BUCKET_MS

(* buckets[idx].sum += lvl; buckets[idx].count += 1 *)
addVote(buckets, idx, lvl) ==
    [buckets EXCEPT ![idx] = [@ EXCEPT !.sum = @ + lvl, !.count = @ + 1]]

(* the first loop of buildLineBuckets15minAll; createdAtMs is a number *)
RECURSIVE fillAll(_, _, _)
fillAll(rs, startMs, buckets) ==
    IF rs = << >> THEN buckets
    ELSE LET r == Head(rs)
             idx == bucketIdx(r.createdAtMs, startMs)
             lvl == clamp(r.waitLevel, 0, 3)
         IN  fillAll(Tail(rs), startMs,
                 IF r.createdAtMs < startMs THEN buckets
                 ELSE IF idx < 0 \/ idx >= LINE_POINTS THEN buckets
                 ELSE addVote(buckets, idx, lvl))

(* the first loop of buildLineBuckets15min *)
RECURSIVE fillDir(_, _, _, _)
fillDir(rs, startMs, d, buckets) ==
    IF rs = << >> THEN buckets
    ELSE LET r == Head(rs)
             rdir == IF r.dir = "R2L" THEN "R2L" ELSE "L2R"
             idx == bucketIdx(r.createdAtMs, startMs)
             lvl == clamp(r.waitLevel, 0, 3)
         IN  fillDir(Tail(rs), startMs, d,
                 IF r.createdAtMs < startMs THEN buckets
                 ELSE IF rdir # d THEN buckets
                 ELSE IF idx < 0 \/ idx >= LINE_POINTS THEN buckets
                 ELSE addVote(buckets, idx, lvl))

(* a slip: the quotient is truncated to a whole number *)
rawAvgTruncated(buckets) ==
    [i \in DOMAIN buckets |->
        [buckets[i] EXCEPT !.avg = IF buckets[i].count # 0
                                   THEN Frac(buckets[i].sum \div buckets[i].count, 1)
                                   ELSE Frac(0, 1)]]

(* buckets[i].avg = buckets[i].count ? buckets[i].sum / buckets[i].count : 0 *)
rawAvg(buckets) ==
    [i \in DOMAIN buckets |->
        [buckets[i] EXCEPT !.avg = IF buckets[i].count # 0
                                   THEN Frac(buckets[i].sum, buckets[i].count)
                                   ELSE Frac(0, 1)]]

(* (a + b.avg + c) / 3 *)
meanOf3(a, b, c) ==
    Frac(a.num * b.den * c.den + b.num * a.den * c.den + c.num * a.den * b.den,
         3 * a.den * b.den * c.den)

(* a slip: a missing neighbour counts as 0 *)
smoothZeroPad(buckets) ==
    [i \in DOMAIN buckets |->
        LET b == buckets[i]
            a == IF i - 1 \in DOMAIN buckets THEN buckets[i - 1].avg ELSE Frac(0, 1)
            c == IF i + 1 \in DOMAIN buckets THEN buckets[i + 1].avg ELSE Frac(0, 1)
        IN  [b EXCEPT !.avg = meanOf3(a, b.avg, c)]]

(* a slip: the pass is run again over its own output *)
smoothTwice(buckets) ==
    LET pass(bs) ==
            [i \in DOMAIN bs |->
                LET b == bs[i]
                    a == IF i - 1 \in DOMAIN bs THEN bs[i - 1].avg ELSE b.avg
                    c == IF i + 1 \in DOMAIN bs THEN bs[i + 1].avg ELSE b.avg
                IN  [b EXCEPT !.avg = meanOf3(a, b.avg, c)]]
    IN  pass(pass(buckets))

(* buckets.map((b, i) => ...): the 3-point moving average, read from the   *)
(* array being mapped and written to a new one                             *)
smooth(buckets) ==
    [i \in DOMAIN buckets |->
        LET b == buckets[i]
            a == IF i - 1 \in DOMAIN buckets THEN buckets[i - 1].avg ELSE b.avg
            c == IF i + 1 \in DOMAIN buckets THEN buckets[i + 1].avg ELSE b.avg
        IN  [b EXCEPT !.avg = meanOf3(a, b.avg, c)]]

buildLineBuckets15minAll(rs, startMs) ==
    smooth(rawAvg(fillAll(rs, startMs, emptyBuckets)))

buildLineBuckets15min(rs, startMs, d) ==
    smooth(rawAvg(fillDir(rs, startMs, d, emptyBuckets)))

-----------------------------------------------------------------------------
(* summarizeDayAll, summarizeDayAllDirs and summarizeDay *)

(* const counts = [0, 0, 0, 0]; let sum = 0; let total = 0 *)
emptyTally == [counts |-> [l \in 0 .. 3 |-> 0], sum |-> 0, total |-> 0]

(* a slip: the level's count is set to 1 instead of being incremented *)
tallyFlag(acc, lvl) ==
    [counts |-> [acc.counts EXCEPT ![lvl] = 1],
     sum |-> acc.sum + lvl,
     total |-> acc.total + 1]

(* counts[lvl] += 1; sum += lvl; total += 1 *)
tally(acc, lvl) ==
    [counts |-> [acc.counts EXCEPT ![lvl] = @ + 1],
     sum |-> acc.sum + lvl,
     total |-> acc.total + 1]

(* a slip: the quotient is taken without the test of total; 0/0 is NaN *)
avgOfUnguarded(sum, total) == [num |-> sum, den |-> total]

(* total ? sum / total : 0 *)
avgOf(sum, total) == IF total # 0 THEN Frac(sum, total) ELSE Frac(0, 1)

(* the loop of summarizeDayAll *)
RECURSIVE tallyAll(_, _)
tallyAll(rs, acc) ==
    IF rs = << >> THEN acc
    ELSE tallyAll(Tail(rs), tally(acc, clamp(Head(rs).waitLevel, 0, 3)))

summarizeDayAll(rs) ==
    LET acc == tallyAll(rs, emptyTally)
    IN  [total |-> acc.total, avg |-> avgOf(acc.sum, acc.total), counts |-> acc.counts]

(* the loop of summarizeDayAllDirs *)
RECURSIVE tallyAllDirs(_, _)
tallyAllDirs(rs, acc) ==
    IF rs = << >> THEN acc
    ELSE tallyAllDirs(Tail(rs), tally(acc, clamp(Head(rs).waitLevel, 0, 3)))

summarizeDayAllDirs(rs) ==
    LET acc == tallyAllDirs(rs, emptyTally)
        avg == avgOf(acc.sum, acc.total)
    IN  [total |-> acc.total, avg |-> avg, counts |-> acc.counts]

(* a slip: a report stored without a direction counts for R2L *)
RECURSIVE tallyDirFallbackR2L(_, _, _)
tallyDirFallbackR2L(rs, d, acc) ==
    IF rs = << >> THEN acc
    ELSE LET r == Head(rs)
             rdir == IF r.dir = "L2R" THEN "L2R" ELSE "R2L"
         IN  tallyDirFallbackR2L(Tail(rs), d,
                 IF rdir # d THEN acc ELSE tally(acc, clamp(r.waitLevel, 0, 3)))

(* the loop of summarizeDay *)
RECURSIVE tallyDir(_, _, _)
tallyDir(rs, d, acc) ==
    IF rs = << >> THEN acc
    ELSE LET r == Head(rs)
             rdir == IF r.dir = "R2L" THEN "R2L" ELSE "L2R"
         IN  tallyDir(Tail(rs), d,
                 IF rdir # d THEN acc ELSE tally(acc, clamp(r.waitLevel, 0, 3)))

summarizeDay(rs, d) ==
    LET acc == tallyDir(rs, d, emptyTally)
    IN  [total |-> acc.total, avg |-> avgOf(acc.sum, acc.total), counts |-> acc.counts]

-----------------------------------------------------------------------------
(* statusFromLevel and statusFromAvg of the chart screen *)

(* the titles, without their diacritics, and the names of the emoji *)
statusFromLevel(level) ==
    IF level <= 0 THEN [title |-> "E lire", emoji |-> "check mark"]
    ELSE IF level = 1 THEN [title |-> "E vogel", emoji |-> "green circle"]
    ELSE IF level = 2 THEN [title |-> "Mesatare", emoji |-> "yellow circle"]
    ELSE [title |-> "E ngarkuar", emoji |-> "red circle"]

(* x < y for fractions with positive denominators *)
LessFrac(x, y) == x.num * y.den < y.num * x.den

(* clamp on fractions: Math.max(a, Math.min(b, n)) *)
clampFrac(n, a, b) ==
    LET m == IF LessFrac(b, n) THEN b ELSE n
    IN  IF LessFrac(m, a) THEN a ELSE m

(* a slip: the thresholds belong to the lower level *)
statusFromAvgInclusive(avg) ==
    LET a == clampFrac(avg, Frac(0, 1), Frac(3, 1))
        lvl == IF ~LessFrac(Frac(1, 2), a) THEN 0
               ELSE IF ~LessFrac(Frac(3, 2), a) THEN 1
               ELSE IF ~LessFrac(Frac(5, 2), a) THEN 2 ELSE 3
    IN  statusFromLevel(lvl)

(* const lvl = a < 0.5 ? 0 : a < 1.5 ? 1 : a < 2.5 ? 2 : 3 *)
statusFromAvg(avg) ==
    LET a == clampFrac(avg, Frac(0, 1), Frac(3, 1))
        lvl == IF LessFrac(a, Frac(1, 2)) THEN 0
               ELSE IF LessFrac(a, Frac(3, 2)) THEN 1
               ELSE IF LessFrac(a, Frac(5, 2)) THEN 2 ELSE 3
    IN  statusFromLevel(lvl)

-----------------------------------------------------------------------------
(* statusFromLevel and dayStatusFromAvg of the home screen *)

(* the home screen's statusFromLevel: level === 0, and a description *)
statusFromLevelHome(level) ==
    IF level = 0
    THEN [title |-> "E lire", emoji |-> "check mark", desc |-> "S'ka kolone / shume pak"]
    ELSE IF level = 1
    THEN [title |-> "E vogel", emoji |-> "green circle", desc |-> "Pak pritje"]
    ELSE IF level = 2
    THEN [title |-> "Mesatare", emoji |-> "yellow circle", desc |-> "Pritje normale"]
    ELSE [title |-> "E ngarkuar", emoji |-> "red circle", desc |-> "Pritje e gjate"]

(* a slip: Math.floor in place of Math.round *)
dayStatusFromAvgFloor(avg) ==
    statusFromLevelHome(clamp(MathFloor(avg.num, avg.den), 0, 3))

(* const level = clamp(Math.round(avg), 0, 3); return statusFromLevel(level) *)
dayStatusFromAvg(avg) ==
    statusFromLevelHome(clamp(MathRound(avg.num, avg.den), 0, 3))

-----------------------------------------------------------------------------
(* HomeScreen: the vote cooldown and submit *)

VOTE_COOLDOWN_MS == 60 * 1000

(* two of BORDERS, by id; sanitizeKey leaves both ids as they are *)
Borders == {"HANI_I_ELEZIT", "JARINJE"}

(* `kolonakufiri_lastvote_${sanitizeKey(borderId)}` *)
lastVoteKey(borderId) ==
    IF borderId = "HANI_I_ELEZIT" THEN "kolonakufiri_lastvote_HANI_I_ELEZIT"
    ELSE "kolonakufiri_lastvote_JARINJE"

(* `kolonakufiri_lastvote_level_${sanitizeKey(borderId)}` *)
lastVoteLevelKey(borderId) ==
    IF borderId = "HANI_I_ELEZIT" THEN "kolonakufiri_lastvote_level_HANI_I_ELEZIT"
    ELSE "kolonakufiri_lastvote_level_JARINJE"

StoreKeys == {lastVoteKey(b) : b \in Borders} \cup {lastVoteLevelKey(b) : b \in Borders}

(* v ? Number(v) : 0, v the item read; a stored item is String(ms) *)
getLastVoteMs(borderId) ==
    LET v == secureStore[lastVoteKey(borderId)]
    IN  IF v # << >> THEN v[1] ELSE 0

(* const lvl = v === null ? null : Number(v), v the item read, and          *)
(* typeof lvl === "number" && !Number.isNaN(lvl) ? clamp(lvl, 0, 3) : null *)
shownLevel(v) == IF v = << >> THEN << >> ELSE <<clamp(v[1], 0, 3)>>

(* lastMs && now - lastMs < VOTE_COOLDOWN_MS *)
tooSoon(lastMs, now) == lastMs # 0 /\ now - lastMs < VOTE_COOLDOWN_MS

-----------------------------------------------------------------------------
(* HomeScreen: the live window *)

LIVE_WINDOW_HOURS == 2
LIVE_WINDOW_MS == LIVE_WINDOW_HOURS * 60 * 60 * 1000

(* setInterval(() => setLiveTick((t) => t + 1), 30 * 1000) *)
LIVE_TICK_MS == 30 * 1000

(* a slip: the reports of the day, not filtered by the window *)
liveOfDay(rs, now) == rs

(* const since = Date.now() - LIVE_WINDOW_MS;                               *)
(* reportsToday.filter((r) => r.createdAtMs >= since)                      *)
liveOf(rs, now) ==
    LET since == now - LIVE_WINDOW_MS
    IN  SelectSeq(rs, LAMBDA r : r.createdAtMs >= since)

-----------------------------------------------------------------------------
(* getHanEleziTrafficDirect and its cache *)

API_CACHE_MS == 90 * 1000

(* setInterval(loadApi, 60_000) *)
API_REFRESH_MS == 60 * 1000

(* the value of TOMTOM_KEY in the source, which asks for it to be replaced *)
(* by the key of the build                                                 *)
TOMTOM_KEY == "CggQRwzwUoVB0QXQeuP1FrV5MksVBerA"

(* !TOMTOM_KEY || TOMTOM_KEY === "CggQRwzwUoVB0QXQeuP1FrV5MksVBerA" *)
keyRejected(key) == key = "" \/ key = "CggQRwzwUoVB0QXQeuP1FrV5MksVBerA"

(* apiCache.data && now - apiCache.ts < API_CACHE_MS *)
cacheHit(cache, now) == cache.data # << >> /\ now - cache.ts < API_CACHE_MS

(* { ...apiCache.data, cached: true } *)
fromCache(cache) == [cache.data[1] EXCEPT !.cached = TRUE]

(* a slip: the flag of the clean-up is not read *)
isCancelledNever(call) == FALSE

(* `cancelled` of the effect run that made the call *)
isCancelled(call) == call.cancelled

-----------------------------------------------------------------------------
(* The estimator applied to bounded inputs *)

SeqsUpTo(S, n) == UNION {[1 .. k -> S] : k \in 0 .. n}

(* long lists: levels 0 and 3 only, every report with the same stamp *)
VolumeLists ==
    {[i \in DOMAIN f |-> [waitLevel |-> f[i], createdAtMs |-> t]] :
        f \in SeqsUpTo({0, 3}, MaxVolume), t \in TimeStamps}

NoPair == reportsB = << >> /\ liveB = << >>
NoSum == summary = << >> /\ daySummary = << >> /\ summaryDir = << >>
NoStatus == avgIn = Frac(0, 1) /\ avgStatus = << >> /\ dayStatus = << >>
NoHome ==
    /\ nowMs = 0 /\ selected = "HANI_I_ELEZIT" /\ deviceId = << >>
    /\ submitting = FALSE /\ lastVoteLevel = << >>
    /\ closure = << >> /\ secureStore = << >> /\ db = << >> /\ calls = << >>
NoScreen == reportsToday = << >> /\ listener = << >>
NoLive ==
    /\ liveTick = 0 /\ timerDue = 0 /\ liveReports = << >>
    /\ liveAt = 0 /\ liveStale = FALSE
NoApi ==
    /\ tomtomKey = "" /\ apiTraffic = << >> /\ apiLoading = FALSE
    /\ apiError = << >> /\ apiCache = << >> /\ apiEffect = << >>
    /\ apiTimerDue = 0 /\ apiCalls = << >> /\ newestTs = -1
NoLevel == levelEffect = << >> /\ levelReads = {}
NoOther == NoSum /\ NoStatus /\ NoHome /\ NoScreen /\ NoLive /\ NoApi /\ NoLevel
NoLine ==
    /\ dayReports = << >> /\ startDayMs = 0
    /\ line = << >> /\ lineDir = << >> /\ dir = "L2R"

Init ==
    /\ reports \in SeqsUpTo(Report, MaxVotes) \cup VolumeLists
    /\ clock = T0
    /\ live = << >>
    /\ liveNow = T0
    /\ NoPair
    /\ NoLine
    /\ NoOther

(* the device clock advances *)
Tick ==
    /\ clock < T0 + MaxTicks
    /\ clock' = clock + 1
    /\ UNCHANGED <<reports, live, liveNow, pairVars, lineVars, otherVars>>

(* const liveVotes = computeSmartLevel(liveReports) *)
CallEstimator ==
    /\ live' = <<computeSmartLevel(reports)>>
    /\ liveNow' = clock
    /\ UNCHANGED <<reports, clock, pairVars, lineVars, otherVars>>

Next == Tick \/ CallEstimator

Spec == Init /\ [][Next]_vars

-----------------------------------------------------------------------------
(* Two single-vote lists that differ in the timestamp only, evaluated at   *)
(* the same reading of the clock                                           *)

InitPair ==
    /\ \E l \in LevelInputs, t1 \in TimeStamps, t2 \in TimeStamps :
          /\ reports = <<[waitLevel |-> l, createdAtMs |-> t1]>>
          /\ reportsB = <<[waitLevel |-> l, createdAtMs |-> t2]>>
    /\ clock = T0
    /\ live = << >>
    /\ liveB = << >>
    /\ liveNow = T0
    /\ NoLine
    /\ NoOther

CallPair ==
    /\ live' = <<computeSmartLevel(reports)>>
    /\ liveB' = <<computeSmartLevel(reportsB)>>
    /\ liveNow' = clock
    /\ UNCHANGED <<reports, reportsB, clock, lineVars, otherVars>>

NextPair == Tick \/ CallPair

SpecPair == InitPair /\ [][NextPair]_vars

-----------------------------------------------------------------------------
(* The series builders applied to bounded inputs *)

DayMs == 24 * 60 * 60 * 1000
Midnight == 2 * DayMs                \* a local midnight

(* stamps around the first bucket, the second and the end of the day *)
LineStamps ==
    {Midnight + o : o \in {-1, 0, LINE_BUCKET_MS - 1, LINE_BUCKET_MS,
                           DayMs - 1, DayMs}}
DayStarts == {Midnight - LINE_BUCKET_MS, Midnight}
Dir == {"L2R", "R2L"}

(* reports stored without a direction: a level below, within and above 0..3 *)
DayReport ==
    [waitLevel : {-1, 2, 4}, createdAtMs : LineStamps, dir : {"none"}]
(* reports stored with or without a direction *)
DirReport ==
    [waitLevel : {4}, createdAtMs : {Midnight - 1, Midnight, Midnight + DayMs},
     dir : Dir \cup {"none"}]

InitLine ==
    /\ dayReports \in SeqsUpTo(DayReport, MaxDayVotes) \cup SeqsUpTo(DirReport, MaxDayVotes)
    /\ startDayMs \in DayStarts
    /\ line = << >>
    /\ lineDir = << >>
    /\ dir = "L2R"
    /\ reports = << >> /\ clock = T0 /\ live = << >> /\ liveNow = T0
    /\ NoPair
    /\ NoOther

(* const buckets = buildLineBuckets15minAll(reportsToday, dayStart),       *)
(* applied once to the input drawn                                         *)
BuildAll ==
    /\ line = << >>
    /\ line' = <<buildLineBuckets15minAll(dayReports, startDayMs)>>
    /\ UNCHANGED <<dayReports, startDayMs, lineDir, dir, estVars, pairVars, otherVars>>

(* const buckets = buildLineBuckets15min(reportsToday, dayStart, dir),     *)
(* applied once to the input drawn                                         *)
BuildDir ==
    /\ lineDir = << >>
    /\ \E d \in Dir :
          /\ lineDir' = <<buildLineBuckets15min(dayReports, startDayMs, d)>>
          /\ dir' = d
    /\ UNCHANGED <<dayReports, startDayMs, line, estVars, pairVars, otherVars>>

NextLine == BuildAll \/ BuildDir

SpecLine == InitLine /\ [][NextLine]_vars

-----------------------------------------------------------------------------
(* The summaries applied to bounded inputs *)

(* reports of every level, stamped before the day and within it *)
SumReport ==
    [waitLevel : LevelInputs, createdAtMs : {Midnight - 1, Midnight}, dir : {"none"}]

InitSum ==
    /\ dayReports \in SeqsUpTo(SumReport, MaxSumVotes)
    /\ startDayMs = Midnight
    /\ line = << >> /\ lineDir = << >> /\ dir = "L2R"
    /\ reports = << >> /\ clock = T0 /\ live = << >> /\ liveNow = T0
    /\ NoPair
    /\ NoOther

(* const summary = useMemo(() => summarizeDayAll(reportsToday), ...) *)
SummarizeAll ==
    /\ summary = << >>
    /\ summary' = <<summarizeDayAll(dayReports)>>
    /\ UNCHANGED <<daySummary, summaryDir, estVars, pairVars, lineVars, statusVars, homeVars, screenVars, liveVars, apiVars, levelVars>>

(* const daySummary = useMemo(() => summarizeDayAllDirs(reportsToday), ...) *)
SummarizeAllDirs ==
    /\ daySummary = << >>
    /\ daySummary' = <<summarizeDayAllDirs(dayReports)>>
    /\ UNCHANGED <<summary, summaryDir, estVars, pairVars, lineVars, statusVars, homeVars, screenVars, liveVars, apiVars, levelVars>>

NextSum == SummarizeAll \/ SummarizeAllDirs

SpecSum == InitSum /\ [][NextSum]_vars

-----------------------------------------------------------------------------
(* The directional builder and summary applied to bounded inputs *)

(* reports with and without a direction, before the day, in its first and  *)
(* in its second bucket                                                    *)
DirVote ==
    [waitLevel : {1, 4},
     createdAtMs : {Midnight - 1, Midnight, Midnight + LINE_BUCKET_MS},
     dir : Dir \cup {"none"}]

InitDirs ==
    /\ dayReports \in SeqsUpTo(DirVote, MaxDayVotes)
    /\ startDayMs = Midnight
    /\ line = << >> /\ lineDir = << >> /\ dir = "L2R"
    /\ reports = << >> /\ clock = T0 /\ live = << >> /\ liveNow = T0
    /\ NoPair
    /\ NoOther

(* const summary = useMemo(() => summarizeDay(reportsToday, dir), ...),    *)
(* in the render that built the buckets for dir                            *)
SummarizeDir ==
    /\ lineDir # << >>
    /\ summaryDir = << >>
    /\ summaryDir' = <<summarizeDay(dayReports, dir)>>
    /\ UNCHANGED <<summary, daySummary, estVars, pairVars, lineVars, statusVars, homeVars, screenVars, liveVars, apiVars, levelVars>>

NextDirs == BuildDir \/ SummarizeDir

SpecDirs == InitDirs /\ [][NextDirs]_vars

-----------------------------------------------------------------------------
(* The classifier applied to bounded inputs *)

(* the averages from -0.10 to 3.10 in steps of 0.01 *)
AvgInputs == {Frac(n, 100) : n \in -10 .. 310}

InitStatus ==
    /\ avgIn \in AvgInputs
    /\ avgStatus = << >>
    /\ dayStatus = << >>
    /\ reports = << >> /\ clock = T0 /\ live = << >> /\ liveNow = T0
    /\ NoPair
    /\ NoLine
    /\ NoSum
    /\ NoHome
    /\ NoScreen
    /\ NoLive
    /\ NoApi
    /\ NoLevel

(* const avgStatus = useMemo(() => statusFromAvg(summary.avg), ...) *)
ClassifyAvg ==
    /\ avgStatus = << >>
    /\ avgStatus' = <<statusFromAvg(avgIn)>>
    /\ UNCHANGED <<avgIn, dayStatus, estVars, pairVars, lineVars, sumVars, homeVars, screenVars, liveVars, apiVars, levelVars>>

(* const dayStatus = useMemo(() => dayStatusFromAvg(daySummary.avg), ...) *)
ClassifyDayAvg ==
    /\ dayStatus = << >>
    /\ dayStatus' = <<dayStatusFromAvg(avgIn)>>
    /\ UNCHANGED <<avgIn, avgStatus, estVars, pairVars, lineVars, sumVars, homeVars, screenVars, liveVars, apiVars, levelVars>>

NextStatus == ClassifyAvg \/ ClassifyDayAvg

SpecStatus == InitStatus /\ [][NextStatus]_vars

-----------------------------------------------------------------------------
(* HomeScreen: calls of submit, interleaved at their awaits *)

SubmitLevels == {0, 3}
TickMs == VOTE_COOLDOWN_MS \div 2
FirstNowMs == Midnight

(* what the handlers created by a render see of the state *)
Captured == [submitting |-> submitting, deviceId |-> deviceId, selected |-> selected]

IdleCall == [pc |-> "idle", borderId |-> "", waitLevel |-> 0, now |-> 0]

InitSubmit ==
    /\ nowMs = FirstNowMs
    /\ selected = "HANI_I_ELEZIT"
    /\ deviceId = << >>
    /\ submitting = FALSE
    /\ lastVoteLevel = << >>
    /\ closure = [submitting |-> FALSE, deviceId |-> << >>, selected |-> "HANI_I_ELEZIT"]
    /\ secureStore = [k \in StoreKeys |-> << >>]
    /\ db = << >>
    /\ calls = [c \in 1 .. MaxSubmits |-> IdleCall]
    /\ reportsToday = << >>
    /\ listener = << >>
    /\ dayReports = << >>
    /\ daySummary = <<summarizeDayAllDirs(<< >>)>>
    /\ startDayMs = 0 /\ line = << >> /\ lineDir = << >> /\ dir = "L2R"
    /\ summary = << >> /\ summaryDir = << >>
    /\ reports = << >> /\ clock = T0 /\ live = << >> /\ liveNow = T0
    /\ NoPair
    /\ NoStatus
    /\ NoLive
    /\ NoApi
    /\ NoLevel

notHome == <<estVars, pairVars, lineVars, sumVars, statusVars, screenVars, liveVars,
             apiVars, levelVars>>

(* what a render leaves alone besides the state *)
notRendered ==
    <<startDayMs, line, lineDir, dir, summary, summaryDir,
      estVars, pairVars, statusVars, apiVars, levelVars>>

(* the device clock advances *)
TickSubmit ==
    /\ nowMs < FirstNowMs + MaxSubmitTicks * TickMs
    /\ nowMs' = nowMs + TickMs
    /\ UNCHANGED <<selected, deviceId, submitting, lastVoteLevel, closure,
                   secureStore, db, calls, notHome>>

(* const id = await getOrCreateDeviceId(); setDeviceId(id) *)
DeviceReady ==
    /\ deviceId = << >>
    /\ deviceId' = <<"device">>
    /\ UNCHANGED <<nowMs, selected, submitting, lastVoteLevel, closure,
                   secureStore, db, calls, notHome>>

(* onPress={() => setSelected(item)} *)
SelectBorder ==
    /\ \E b \in Borders \ {closure.selected} : selected' = b
    /\ UNCHANGED <<nowMs, deviceId, submitting, lastVoteLevel, closure,
                   secureStore, db, calls, notHome>>

(* the component renders again: its handlers capture the current state,   *)
(* and summarizeDayAllDirs(reportsToday) is the summary shown for the      *)
(* border selected                                                         *)
Render ==
    /\ closure # Captured \/ dayReports # reportsToday \/ liveStale
    /\ closure' = Captured
    /\ dayReports' = reportsToday
    /\ daySummary' = <<summarizeDayAllDirs(reportsToday)>>
    /\ IF liveStale
       THEN /\ liveReports' = liveOf(reportsToday, nowMs)
            /\ liveAt' = nowMs
            /\ liveStale' = FALSE
       ELSE UNCHANGED <<liveReports, liveAt, liveStale>>
    /\ UNCHANGED <<nowMs, selected, deviceId, submitting, lastVoteLevel,
                   secureStore, db, calls, screenVars, liveTick, timerDue,
                   notRendered>>

(* onPress={() => submit(w)}: submit up to its first await *)
Press(c) ==
    /\ calls[c].pc = "idle"
    /\ c > 1 => calls[c - 1].pc # "idle"
    /\ \E w \in SubmitLevels :
          IF closure.submitting \/ closure.deviceId = << >>
          THEN /\ calls' = [calls EXCEPT ![c].pc = "done"]
               /\ UNCHANGED submitting
          ELSE /\ submitting' = TRUE
               /\ calls' = [calls EXCEPT ![c] =
                               [pc |-> "getLastVoteMs", borderId |-> closure.selected,
                                waitLevel |-> w, now |-> 0]]
    /\ UNCHANGED <<nowMs, selected, deviceId, lastVoteLevel, closure,
                   secureStore, db, notHome>>

(* getLastVoteMs resolves: const now = Date.now(), the cooldown test, and  *)
(* either the return through finally or the call of addDoc                 *)
GotLastVoteMs(c) ==
    /\ calls[c].pc = "getLastVoteMs"
    /\ IF tooSoon(getLastVoteMs(calls[c].borderId), nowMs)
       THEN /\ calls' = [calls EXCEPT ![c].pc = "done"]
            /\ submitting' = FALSE
       ELSE /\ calls' = [calls EXCEPT ![c].pc = "addDoc", ![c].now = nowMs]
            /\ UNCHANGED submitting
    /\ UNCHANGED <<nowMs, selected, deviceId, lastVoteLevel, closure,
                   secureStore, db, notHome>>

(* addDoc resolves, the document written; setLastVoteMs is called *)
AddDocDone(c) ==
    /\ calls[c].pc = "addDoc"
    /\ db' = Append(db, [borderId |-> calls[c].borderId,
                         waitLevel |-> calls[c].waitLevel,
                         createdAtMs |-> calls[c].now])
    /\ calls' = [calls EXCEPT ![c].pc = "setLastVoteMs"]
    /\ UNCHANGED <<nowMs, selected, deviceId, submitting, lastVoteLevel, closure,
                   secureStore, notHome>>

(* setLastVoteMs resolves, the item stored; setLastVoteLevel is called *)
SetLastVoteMsDone(c) ==
    /\ calls[c].pc = "setLastVoteMs"
    /\ secureStore' = [secureStore EXCEPT
                          ![lastVoteKey(calls[c].borderId)] = <<calls[c].now>>]
    /\ calls' = [calls EXCEPT ![c].pc = "setLastVoteLevel"]
    /\ UNCHANGED <<nowMs, selected, deviceId, submitting, lastVoteLevel, closure,
                   db, notHome>>

(* setLastVoteLevel resolves, the item stored; setLastVoteLevelState and   *)
(* finally                                                                 *)
SetLastVoteLevelDone(c) ==
    /\ calls[c].pc = "setLastVoteLevel"
    /\ secureStore' = [secureStore EXCEPT
                          ![lastVoteLevelKey(calls[c].borderId)] = <<calls[c].waitLevel>>]
    /\ lastVoteLevel' = <<calls[c].waitLevel>>
    /\ submitting' = FALSE
    /\ calls' = [calls EXCEPT ![c].pc = "done"]
    /\ UNCHANGED <<nowMs, selected, deviceId, closure, db, notHome>>

(* a slip: the last-vote time is stored before the report is written *)
RejectedAfterStamp(c) ==
    /\ calls[c].pc \in {"getLastVoteMs", "addDoc", "setLastVoteMs", "setLastVoteLevel"}
    /\ calls' = [calls EXCEPT ![c].pc = "done"]
    /\ submitting' = FALSE
    /\ secureStore' = IF calls[c].pc = "getLastVoteMs" THEN secureStore
                      ELSE [secureStore EXCEPT
                               ![lastVoteKey(calls[c].borderId)] = <<calls[c].now>>]
    /\ UNCHANGED <<nowMs, selected, deviceId, lastVoteLevel, closure, db, notHome>>

(* a slip: setSubmitting(false) stands at the end of try, not in finally *)
RejectedNoFinally(c) ==
    /\ calls[c].pc \in {"getLastVoteMs", "addDoc", "setLastVoteMs", "setLastVoteLevel"}
    /\ calls' = [calls EXCEPT ![c].pc = "done"]
    /\ UNCHANGED <<nowMs, selected, deviceId, submitting, lastVoteLevel, closure,
                   secureStore, db, notHome>>

(* the awaited promise rejects, nothing written: catch and finally *)
Rejected(c) ==
    /\ calls[c].pc \in {"getLastVoteMs", "addDoc", "setLastVoteMs", "setLastVoteLevel"}
    /\ calls' = [calls EXCEPT ![c].pc = "done"]
    /\ submitting' = FALSE
    /\ UNCHANGED <<nowMs, selected, deviceId, lastVoteLevel, closure,
                   secureStore, db, notHome>>

NextSubmit ==
    \/ TickSubmit
    \/ DeviceReady
    \/ SelectBorder
    \/ Render
    \/ \E c \in 1 .. MaxSubmits :
          \/ Press(c)
          \/ GotLastVoteMs(c)
          \/ AddDocDone(c)
          \/ SetLastVoteMsDone(c)
          \/ SetLastVoteLevelDone(c)
          \/ Rejected(c)

SpecSubmit == InitSubmit /\ [][NextSubmit]_vars

-----------------------------------------------------------------------------
(* HomeScreen: calls of submit on a device that may have voted in an       *)
(* earlier session                                                         *)

(* the store of a new device, and the store left by a vote of level 3 for  *)
(* HANI_I_ELEZIT half a cooldown before the screen is mounted              *)
StoredBefore ==
    {[k \in StoreKeys |-> << >>],
     [k \in StoreKeys |->
         IF k = lastVoteKey("HANI_I_ELEZIT") THEN <<FirstNowMs - TickMs>>
         ELSE IF k = lastVoteLevelKey("HANI_I_ELEZIT") THEN <<3>>
         ELSE << >>]}

InitVote ==
    /\ nowMs = FirstNowMs
    /\ selected = "HANI_I_ELEZIT"
    /\ deviceId = << >>
    /\ submitting = FALSE
    /\ lastVoteLevel = << >>
    /\ closure = [submitting |-> FALSE, deviceId |-> << >>, selected |-> "HANI_I_ELEZIT"]
    /\ secureStore \in StoredBefore
    /\ db = << >>
    /\ calls = [c \in 1 .. MaxFairSubmits |-> IdleCall]
    /\ reportsToday = << >>
    /\ listener = << >>
    /\ dayReports = << >>
    /\ daySummary = <<summarizeDayAllDirs(<< >>)>>
    /\ startDayMs = 0 /\ line = << >> /\ lineDir = << >> /\ dir = "L2R"
    /\ summary = << >> /\ summaryDir = << >>
    /\ reports = << >> /\ clock = T0 /\ live = << >> /\ liveNow = T0
    /\ NoPair
    /\ NoStatus
    /\ NoLive
    /\ NoApi
    /\ NoLevel

NextVote ==
    \/ TickSubmit
    \/ DeviceReady
    \/ SelectBorder
    \/ Render
    \/ \E c \in 1 .. MaxFairSubmits :
          \/ Press(c)
          \/ GotLastVoteMs(c)
          \/ AddDocDone(c)
          \/ SetLastVoteMsDone(c)
          \/ SetLastVoteLevelDone(c)
          \/ Rejected(c)

SpecVote == InitVote /\ [][NextVote]_vars

(* every promise a call of submit awaits settles in the end *)
VoteFair ==
    \A c \in 1 .. MaxFairSubmits :
        WF_vars(GotLastVoteMs(c) \/ AddDocDone(c) \/ SetLastVoteMsDone(c)
                   \/ SetLastVoteLevelDone(c) \/ Rejected(c))

SpecVoteFair == SpecVote /\ VoteFair

-----------------------------------------------------------------------------
(* HomeScreen: the calls of submit together with the last-vote effect *)

(* the effect on [selected.id] after a render: getLastVoteLevel(selected.id) *)
(* is called, and nothing cancels the call of the run before               *)
LastVoteEffect ==
    /\ levelEffect # <<closure.selected>>
    /\ levelEffect' = <<closure.selected>>
    /\ levelReads' = levelReads \cup {closure.selected}
    /\ UNCHANGED <<homeVars, estVars, pairVars, lineVars, sumVars, statusVars,
                   screenVars, liveVars, apiVars>>

(* getLastVoteLevel(b) resolves: setLastVoteLevelState of the level stored *)
GotLastVoteLevel(b) ==
    /\ b \in levelReads
    /\ lastVoteLevel' = shownLevel(secureStore[lastVoteLevelKey(b)])
    /\ levelReads' = levelReads \ {b}
    /\ UNCHANGED <<nowMs, selected, deviceId, submitting, closure, secureStore, db,
                   calls, levelEffect, estVars, pairVars, lineVars, sumVars,
                   statusVars, screenVars, liveVars, apiVars>>

(* getLastVoteLevel(b) rejects: setLastVoteLevelState(null) *)
LastVoteLevelRejected(b) ==
    /\ b \in levelReads
    /\ lastVoteLevel' = << >>
    /\ levelReads' = levelReads \ {b}
    /\ UNCHANGED <<nowMs, selected, deviceId, submitting, closure, secureStore, db,
                   calls, levelEffect, estVars, pairVars, lineVars, sumVars,
                   statusVars, screenVars, liveVars, apiVars>>

NextLastVote ==
    \/ NextSubmit
    \/ LastVoteEffect
    \/ \E b \in Borders : GotLastVoteLevel(b) \/ LastVoteLevelRejected(b)

SpecLastVote == InitSubmit /\ [][NextLastVote]_vars

-----------------------------------------------------------------------------
(* HomeScreen: the subscription to the reports of the selected border *)

(* d.setHours(0, 0, 0, 0); return d.getTime(), the device on UTC *)
startOfDayMsLocal(now) == now - (now % DayMs)

(* a document of another device *)
Doc == [borderId : Borders, waitLevel : {0, 3}, createdAtMs : {Midnight - 1, Midnight}]

(* where("borderId", "==", b) and the filter of the snapshot callback *)
todayOf(docs, b, now) ==
    SelectSeq(docs, LAMBDA r : r.borderId = b
                               /\ r.createdAtMs >= startOfDayMsLocal(now))

InitScreen ==
    /\ nowMs = FirstNowMs
    /\ selected = "HANI_I_ELEZIT"
    /\ closure = [submitting |-> FALSE, deviceId |-> << >>, selected |-> "HANI_I_ELEZIT"]
    /\ reportsToday = << >>
    /\ listener = << >>
    /\ db \in SeqsUpTo(Doc, MaxDocs - 1)
    /\ dayReports = << >>
    /\ daySummary = <<summarizeDayAllDirs(<< >>)>>
    /\ deviceId = << >> /\ submitting = FALSE /\ lastVoteLevel = << >>
    /\ secureStore = << >> /\ calls = << >>
    /\ startDayMs = 0 /\ line = << >> /\ lineDir = << >> /\ dir = "L2R"
    /\ summary = << >> /\ summaryDir = << >>
    /\ reports = << >> /\ clock = T0 /\ live = << >> /\ liveNow = T0
    /\ NoPair
    /\ NoStatus
    /\ NoLive
    /\ NoApi
    /\ NoLevel

(* another device writes a report *)
RemoteWrite ==
    /\ Len(db) < MaxDocs
    /\ \E r \in Doc : db' = Append(db, r)
    /\ UNCHANGED <<nowMs, selected, deviceId, submitting, lastVoteLevel, closure,
                   secureStore, calls, notHome>>

(* the effect on [selected.id] after a render: the clean-up of the last    *)
(* run, unsub(), and onSnapshot of the query for selected.id               *)
Subscribe ==
    /\ listener # <<closure.selected>>
    /\ listener' = <<closure.selected>>
    /\ UNCHANGED <<reportsToday, homeVars, estVars, pairVars, lineVars, sumVars,
                   statusVars, liveVars, apiVars, levelVars>>

(* the listener's callback: setReportsToday(today) *)
Snapshot ==
    /\ listener # << >>
    /\ reportsToday' = todayOf(db, listener[1], nowMs)
    /\ liveStale' = TRUE
    /\ UNCHANGED <<listener, homeVars, estVars, pairVars, lineVars, sumVars,
                   statusVars, liveTick, timerDue, liveReports, liveAt, apiVars, levelVars>>

NextScreen == SelectBorder \/ RemoteWrite \/ Render \/ Subscribe \/ Snapshot

SpecScreen == InitScreen /\ [][NextScreen]_vars

-----------------------------------------------------------------------------
(* HomeScreen: the live list under the 30-second interval.  The interval   *)
(* fires when it is due and a render follows a state change before the     *)
(* clock moves on.  liveVotes = computeSmartLevel(liveReports) is computed *)
(* in the render that computed liveReports, from that list.                *)

LiveStepMs == LIVE_TICK_MS \div 2
LiveStartMs == Midnight + 3 * 60 * 60 * 1000

(* a document of another device: stamped just before the window that ends  *)
(* at LiveStartMs, at its edge, just within it, or at LiveStartMs          *)
LiveDoc ==
    [borderId : {"HANI_I_ELEZIT"}, waitLevel : {3},
     createdAtMs : {LiveStartMs - LIVE_WINDOW_MS - LiveStepMs,
                    LiveStartMs - LIVE_WINDOW_MS,
                    LiveStartMs - LIVE_WINDOW_MS + LiveStepMs,
                    LiveStartMs}]

(* the state after the mount: the interval set, the first render done *)
InitLive ==
    /\ nowMs = LiveStartMs
    /\ selected = "HANI_I_ELEZIT"
    /\ closure = [submitting |-> FALSE, deviceId |-> << >>, selected |-> "HANI_I_ELEZIT"]
    /\ reportsToday = << >>
    /\ listener = << >>
    /\ db = << >>
    /\ dayReports = << >>
    /\ daySummary = <<summarizeDayAllDirs(<< >>)>>
    /\ liveTick = 0
    /\ timerDue = LiveStartMs + LIVE_TICK_MS
    /\ liveReports = << >>
    /\ liveAt = LiveStartMs
    /\ liveStale = FALSE
    /\ deviceId = << >> /\ submitting = FALSE /\ lastVoteLevel = << >>
    /\ secureStore = << >> /\ calls = << >>
    /\ startDayMs = 0 /\ line = << >> /\ lineDir = << >> /\ dir = "L2R"
    /\ summary = << >> /\ summaryDir = << >>
    /\ reports = << >> /\ clock = T0 /\ live = << >> /\ liveNow = T0
    /\ NoPair
    /\ NoStatus
    /\ NoApi
    /\ NoLevel

(* the device clock advances, not past the time the interval is due *)
TickLive ==
    /\ ~liveStale
    /\ nowMs < timerDue
    /\ nowMs < LiveStartMs + MaxLiveTicks * LiveStepMs
    /\ nowMs' = nowMs + LiveStepMs
    /\ UNCHANGED <<selected, deviceId, submitting, lastVoteLevel, closure,
                   secureStore, db, calls, notHome>>

(* the interval fires: setLiveTick((t) => t + 1) *)
IntervalFires ==
    /\ nowMs = timerDue
    /\ liveTick' = liveTick + 1
    /\ timerDue' = timerDue + LIVE_TICK_MS
    /\ liveStale' = TRUE
    /\ UNCHANGED <<liveReports, liveAt, homeVars, screenVars, estVars, pairVars,
                   lineVars, sumVars, statusVars, apiVars, levelVars>>

(* another device writes a report *)
LiveWrite ==
    /\ Len(db) < MaxDocs
    /\ \E r \in LiveDoc : db' = Append(db, r)
    /\ UNCHANGED <<nowMs, selected, deviceId, submitting, lastVoteLevel, closure,
                   secureStore, calls, notHome>>

NextLive ==
    TickLive \/ IntervalFires \/ LiveWrite \/ Subscribe \/ Snapshot \/ Render

SpecLive == InitLive /\ [][NextLive]_vars

-----------------------------------------------------------------------------
(* HomeScreen: the traffic effect on [isHanElezi], its interval and the    *)
(* calls of getHanEleziTrafficDirect.  A call that is served from the      *)
(* cache or rejected by the test of the key settles in the microtasks of   *)
(* the handler that made it; a call that fetches settles later.  The       *)
(* three fetches of Promise.all are one step.                              *)

ApiStepMs == API_REFRESH_MS \div 2
(* the status of the response; no more than one is needed to tell the      *)
(* results apart, updatedAtMs does                                         *)
ApiStatus == {"HEAVY"}
IdleApiCall == [pc |-> "idle", now |-> 0, newest |-> -1, cancelled |-> FALSE]

(* the state after the first render, before its effects *)
InitApi ==
    /\ tomtomKey \in {TOMTOM_KEY, "key of the build"}
    /\ nowMs = FirstNowMs
    /\ selected = "HANI_I_ELEZIT"
    /\ closure = [submitting |-> FALSE, deviceId |-> << >>, selected |-> "HANI_I_ELEZIT"]
    /\ apiTraffic = << >>
    /\ apiLoading = FALSE
    /\ apiError = << >>
    /\ apiCache = [ts |-> 0, data |-> << >>]
    /\ apiEffect = << >>
    /\ apiTimerDue = 0
    /\ apiCalls = [c \in 1 .. MaxApiCalls |-> IdleApiCall]
    /\ newestTs = -1
    /\ reportsToday = << >> /\ listener = << >>
    /\ db = << >>
    /\ dayReports = << >>
    /\ daySummary = <<summarizeDayAllDirs(<< >>)>>
    /\ deviceId = << >> /\ submitting = FALSE /\ lastVoteLevel = << >>
    /\ secureStore = << >> /\ calls = << >>
    /\ startDayMs = 0 /\ line = << >> /\ lineDir = << >> /\ dir = "L2R"
    /\ summary = << >> /\ summaryDir = << >>
    /\ reports = << >> /\ clock = T0 /\ live = << >> /\ liveNow = T0
    /\ NoPair
    /\ NoStatus
    /\ NoLive
    /\ NoLevel

notApi == <<estVars, pairVars, lineVars, sumVars, statusVars, homeVars, screenVars,
            liveVars, levelVars>>

(* the device clock advances, not past the time the interval is due *)
TickApi ==
    /\ apiEffect # << >> => nowMs < apiTimerDue
    /\ nowMs < FirstNowMs + MaxApiTicks * ApiStepMs
    /\ nowMs' = nowMs + ApiStepMs
    /\ UNCHANGED <<selected, deviceId, submitting, lastVoteLevel, closure,
                   secureStore, db, calls, notHome>>

(* loadApi() of an effect run whose render read isHanElezi = isHan, up to   *)
(* the first await that does not settle at once; old the earlier calls     *)
loadApi(isHan, old) ==
    IF ~isHan
    THEN /\ apiTraffic' = << >>
         /\ apiError' = << >>
         /\ apiLoading' = FALSE
         /\ apiCalls' = old
         /\ UNCHANGED <<apiCache, newestTs>>
    ELSE IF cacheHit(apiCache, nowMs)
    THEN /\ apiTraffic' = <<fromCache(apiCache)>>
         /\ apiError' = << >>
         /\ apiLoading' = FALSE
         /\ apiCalls' = old
         /\ UNCHANGED <<apiCache, newestTs>>
    ELSE IF keyRejected(tomtomKey)
    THEN /\ apiError' = <<"Vendose TOMTOM_KEY ne kod (per MVP).">>
         /\ apiLoading' = FALSE
         /\ apiCalls' = old
         /\ UNCHANGED <<apiTraffic, apiCache, newestTs>>
    ELSE /\ \E c \in 1 .. MaxApiCalls :
              /\ old[c].pc = "idle"
              /\ \A b \in 1 .. c - 1 : old[b].pc # "idle"
              /\ apiCalls' = [old EXCEPT ![c] =
                                 [pc |-> "fetch", now |-> nowMs, newest |-> newestTs,
                                  cancelled |-> FALSE]]
         /\ apiLoading' = TRUE
         /\ apiError' = << >>
         /\ UNCHANGED <<apiTraffic, apiCache, newestTs>>

(* the effect after a render that changed isHanElezi (or the first render): *)
(* the clean-up of the run before (cancelled = true for the calls it still *)
(* waits for, clearInterval), then loadApi() and setInterval               *)
ApiEffect ==
    LET isHan == closure.selected = "HANI_I_ELEZIT"
    IN  /\ IF apiEffect = << >> THEN TRUE ELSE apiEffect[1].isHan # isHan
        /\ apiEffect' = <<[isHan |-> isHan, fired |-> FALSE]>>
        /\ apiTimerDue' = nowMs + API_REFRESH_MS
        /\ loadApi(isHan, [c \in DOMAIN apiCalls |->
                               IF apiCalls[c].pc = "fetch"
                               THEN [apiCalls[c] EXCEPT !.cancelled = TRUE]
                               ELSE apiCalls[c]])
        /\ UNCHANGED <<tomtomKey, notApi>>

(* the interval of the run in force fires: loadApi() *)
ApiTimerFires ==
    /\ apiEffect # << >>
    /\ nowMs = apiTimerDue
    /\ apiEffect' = <<[apiEffect[1] EXCEPT !.fired = TRUE]>>
    /\ apiTimerDue' = apiTimerDue + API_REFRESH_MS
    /\ loadApi(apiEffect[1].isHan, apiCalls)
    /\ UNCHANGED <<tomtomKey, notApi>>

(* the fetches resolve: apiCache = { ts: now, data }, and back in loadApi  *)
(* setApiTraffic(data) and setApiLoading(false) unless cancelled           *)
FetchDone(c) ==
    /\ apiCalls[c].pc = "fetch"
    /\ \E st \in ApiStatus :
          LET data == [status |-> st, updatedAtMs |-> nowMs, cached |-> FALSE]
          IN  /\ apiCache' = [ts |-> apiCalls[c].now, data |-> <<data>>]
              /\ apiTraffic' = IF isCancelled(apiCalls[c]) THEN apiTraffic ELSE <<data>>
    /\ newestTs' = Max(newestTs, apiCalls[c].now)
    /\ apiLoading' = IF isCancelled(apiCalls[c]) THEN apiLoading ELSE FALSE
    /\ apiCalls' = [apiCalls EXCEPT ![c].pc = "done"]
    /\ UNCHANGED <<tomtomKey, apiError, apiEffect, apiTimerDue, notApi>>

(* a fetch rejects: setApiError(message) and setApiLoading(false) unless   *)
(* cancelled                                                               *)
FetchFailed(c) ==
    /\ apiCalls[c].pc = "fetch"
    /\ apiError' = IF isCancelled(apiCalls[c]) THEN apiError ELSE <<"TomTom error">>
    /\ apiLoading' = IF isCancelled(apiCalls[c]) THEN apiLoading ELSE FALSE
    /\ apiCalls' = [apiCalls EXCEPT ![c].pc = "failed"]
    /\ UNCHANGED <<tomtomKey, apiTraffic, apiCache, apiEffect, apiTimerDue,
                   newestTs, notApi>>

NextApi ==
    \/ TickApi
    \/ SelectBorder
    \/ Render
    \/ ApiEffect
    \/ ApiTimerFires
    \/ \E c \in 1 .. MaxApiCalls : FetchDone(c) \/ FetchFailed(c)

SpecApi == InitApi /\ [][NextApi]_vars

-----------------------------------------------------------------------------
(* ExploreScreen: the chart and the summary of the day, the screen staying *)
(* mounted while the reports arrive and local midnight passes              *)

(* a document of some device: stamped before the day of the mount, in it,  *)
(* or past its end                                                         *)
ChartDoc ==
    [borderId : Borders, waitLevel : {3},
     createdAtMs : {Midnight - 1, Midnight, Midnight + DayMs}]

(* the state after the mount: dayStart computed, the first render done *)
InitChart ==
    /\ nowMs = FirstNowMs
    /\ selected = "HANI_I_ELEZIT"
    /\ closure = [submitting |-> FALSE, deviceId |-> << >>, selected |-> "HANI_I_ELEZIT"]
    /\ reportsToday = << >>
    /\ listener = << >>
    /\ db = << >>
    /\ dayReports = << >>
    /\ startDayMs = startOfDayMsLocal(FirstNowMs)
    /\ line = <<buildLineBuckets15minAll(<< >>, startOfDayMsLocal(FirstNowMs))>>
    /\ summary = <<summarizeDayAll(<< >>)>>
    /\ lineDir = << >> /\ dir = "L2R"
    /\ daySummary = << >> /\ summaryDir = << >>
    /\ deviceId = << >> /\ submitting = FALSE /\ lastVoteLevel = << >>
    /\ secureStore = << >> /\ calls = << >>
    /\ reports = << >> /\ clock = T0 /\ live = << >> /\ liveNow = T0
    /\ NoPair
    /\ NoStatus
    /\ NoLive
    /\ NoApi
    /\ NoLevel

(* local midnight passes *)
TickChart ==
    /\ nowMs < FirstNowMs + DayMs
    /\ nowMs' = nowMs + DayMs
    /\ UNCHANGED <<selected, deviceId, submitting, lastVoteLevel, closure,
                   secureStore, db, calls, notHome>>

(* a device writes a report, createdAtMs read from its own clock *)
ChartWrite ==
    /\ Len(db) < MaxDocs
    /\ \E r \in ChartDoc : db' = Append(db, r)
    /\ UNCHANGED <<nowMs, selected, deviceId, submitting, lastVoteLevel, closure,
                   secureStore, calls, notHome>>

(* the component renders again: buckets and summary are recomputed from    *)
(* reportsToday, dayStart is the value memoised at the mount               *)
RenderChart ==
    /\ closure # Captured \/ dayReports # reportsToday \/ liveStale
    /\ closure' = Captured
    /\ dayReports' = reportsToday
    /\ line' = <<buildLineBuckets15minAll(reportsToday, startDayMs)>>
    /\ summary' = <<summarizeDayAll(reportsToday)>>
    /\ UNCHANGED <<nowMs, selected, deviceId, submitting, lastVoteLevel,
                   secureStore, db, calls, screenVars, startDayMs, lineDir, dir,
                   daySummary, summaryDir, estVars, pairVars, statusVars,
                   liveTick, timerDue, liveReports, liveAt, apiVars, levelVars>>
    /\ liveStale' = FALSE

NextChart ==
    TickChart \/ ChartWrite \/ SelectBorder \/ Subscribe \/ Snapshot \/ RenderChart

SpecChart == InitChart /\ [][NextChart]_vars

-----------------------------------------------------------------------------
(* One list of votes handed to the estimator, the series builder and the   *)
(* summary.  A vote is old (recorded before the day, and so long ago that  *)
(* its weight is 0), current, or ahead of the clock and of the day.        *)

CoreVote == [waitLevel : LevelInputs, when : {-1, 0, 1}]

(* the vote as the estimator reads it, time in ticks *)
EstView(v) ==
    [waitLevel |-> v.waitLevel,
     createdAtMs |-> IF v.when < 0 THEN 0
                     ELSE IF v.when = 0 THEN T0 ELSE T0 + MaxTicks]

(* the vote as the series builder and the summary read it, time in ms *)
DayView(v) ==
    [waitLevel |-> v.waitLevel,
     createdAtMs |-> IF v.when < 0 THEN Midnight - 1
                     ELSE IF v.when = 0 THEN Midnight ELSE Midnight + DayMs,
     dir |-> "none"]

InitCore ==
    /\ \E vs \in SeqsUpTo(CoreVote, MaxVotes) :
          /\ reports = [i \in DOMAIN vs |-> EstView(vs[i])]
          /\ dayReports = [i \in DOMAIN vs |-> DayView(vs[i])]
    /\ clock = T0 /\ live = << >> /\ liveNow = T0
    /\ startDayMs = Midnight
    /\ line = << >> /\ lineDir = << >> /\ dir = "L2R"
    /\ NoPair
    /\ NoOther

NextCore == CallEstimator \/ BuildAll \/ SummarizeAll

SpecCore == InitCore /\ [][NextCore]_vars

-----------------------------------------------------------------------------
(* Properties of the estimator *)

Called == live # << >>
Out == live[1]

(* the i-th stored level, clamped *)
LevelAt(rs, i) == IF rs[i].waitLevel < 0 THEN 0
                  ELSE IF rs[i].waitLevel > 3 THEN 3 ELSE rs[i].waitLevel

(* the heaviest level, and the heaviest of the others; of equally heavy     *)
(* levels the lower one ranks first                                         *)
Heaviest(b, S) ==
    CHOOSE l \in S : \A m \in S : b[l] > b[m] \/ (b[l] = b[m] /\ l <= m)
RankTop1(b) == Heaviest(b, 0 .. 3)
RankTop2(b) == Heaviest(b, (0 .. 3) \ {RankTop1(b)})

(* the two top levels are far apart and close in weight *)
Bimodal(b) ==
    LET t1 == RankTop1(b)
        t2 == RankTop2(b)
    IN  /\ (t1 - t2 >= 2 \/ t2 - t1 >= 2)
        /\ 10 * b[t2] >= 7 * b[t1]

(* the nearest integer to n/d (d > 0), a half going up, kept within 0..3 *)
RoundedLevel(n, d) ==
    LET q == CHOOSE k \in -1 .. 7 : 2 * d * k <= 2 * n + d /\ 2 * n + d < 2 * d * (k + 1)
    IN  IF q < 0 THEN 0 ELSE IF q > 3 THEN 3 ELSE q

(* C1: whatever the list of votes (levels outside 0..3 included), whatever  *)
(* their timestamps and the current time, the level returned by            *)
(* computeSmartLevel is one of 0, 1, 2, 3.                                 *)
C1_LevelInRange == Called => Out.level \in {0, 1, 2, 3}

C1_Witness ==
    /\ Called
    /\ Len(reports) = 2
    /\ reports[1].waitLevel = 4 /\ reports[1].createdAtMs = 0
    /\ reports[2].waitLevel = -1 /\ reports[2].createdAtMs > liveNow
    /\ Out.level = 0

(* C3: two calls of the estimator with the same vote list return the same  *)
(* result: the result does not depend on a clock the estimator reads.      *)
C3_SameInputSameOutput ==
    [][(live # << >> /\ live' # << >> /\ reports' = reports) => live' = live]_vars

(* C4: for the empty list the estimator returns level 0, count 0,          *)
(* confidence Low, buckets [0,0,0,0] and avg 0, at any current time.       *)
C4_EmptyBaseline ==
    (Called /\ reports = << >>) =>
        /\ Out.level = 0
        /\ Out.count = 0
        /\ Out.confidence = "Low"
        /\ \A i \in 0 .. 3 : Out.buckets[i] = 0
        /\ DOMAIN Out.buckets = 0 .. 3
        /\ Out.avg.num = 0

C4_Witness == Called /\ reports = << >> /\ liveNow > T0

(* the list is five votes of level 0 and five of level 3, all of one stamp *)
FiveAndFive(rs) ==
    /\ Len(rs) = 10
    /\ Cardinality({i \in 1 .. 10 : rs[i].waitLevel = 0}) = 5
    /\ Cardinality({i \in 1 .. 10 : rs[i].waitLevel = 3}) = 5
    /\ \A i \in 1 .. 10 : rs[i].createdAtMs = rs[1].createdAtMs

(* the level of the bimodal rule: round((top1 + top2) / 2) within 0..3 *)
BimodalRule ==
    Bimodal(Out.buckets) =>
        Out.level = RoundedLevel(RankTop1(Out.buckets) + RankTop2(Out.buckets), 2)

C6_CountAndConfidence ==
    Called =>
        /\ Out.count = Len(reports)
        /\ Out.confidence = "High" <=> Len(reports) >= 10
        /\ Out.confidence = "Medium" <=> (4 <= Len(reports) /\ Len(reports) <= 9)
        /\ Out.confidence = "Low" <=> Len(reports) <= 3

C6_Witness ==
    /\ Called
    /\ Len(reports) = 10
    /\ Out.confidence = "High"
    /\ reports[1].createdAtMs = 0

(* the weight the single vote of rs added to the bucket of its level *)
VoteWeight(rs, out) == out.buckets[LevelAt(rs, 1)]
AgeA == liveNow - reports[1].createdAtMs
AgeB == liveNow - reportsB[1].createdAtMs

C8_WeightedAverage ==
    Called =>
        LET b == Out.buckets
            total == b[0] + b[1] + b[2] + b[3]
            den == IF total = 0 THEN WeightOne ELSE total
            num == b[1] + 2 * b[2] + 3 * b[3]
            t1 == RankTop1(b)
            dist == IF num >= t1 * den THEN num - t1 * den ELSE t1 * den - num
        IN  /\ ~Bimodal(b) =>
                  Out.level = IF 100 * dist < 35 * den THEN t1
                              ELSE RoundedLevel(num, den)
            /\ Out.avg.num * den = num * Out.avg.den
            /\ Out.avg.den > 0

(* the rounding branch decides: the level differs from the dominant level *)
C8_Witness ==
    /\ Called
    /\ ~Bimodal(Out.buckets)
    /\ Out.level # RankTop1(Out.buckets)
    /\ Out.avg.num = 1 /\ Out.avg.den = 2

(* the clamped levels present in the list *)
LevelsOf(rs) == {LevelAt(rs, i) : i \in 1 .. Len(rs)}

(* the level lies between the smallest and the largest clamped level *)
WithinLevels(rs, level) ==
    /\ \E m \in LevelsOf(rs) : m <= level
    /\ \E m \in LevelsOf(rs) : level <= m

(* some vote of the list has a weight that is not 0 at the time of the call *)
SomeWeight(rs) ==
    \E i \in 1 .. Len(rs) : liveNow - rs[i].createdAtMs < EXP_UNDERFLOW

-----------------------------------------------------------------------------
(* Properties of the series builders *)

Built == line # << >>
BuiltDir == lineDir # << >>

(* the k-th report lies in the day that starts at startDayMs *)
InDay(k) ==
    /\ startDayMs <= dayReports[k].createdAtMs
    /\ dayReports[k].createdAtMs < startDayMs + 96 * 900000

(* the in-day reports of the i-th quarter of an hour *)
VotesIn(i) ==
    {k \in 1 .. Len(dayReports) :
        /\ startDayMs + i * 900000 <= dayReports[k].createdAtMs
        /\ dayReports[k].createdAtMs < startDayMs + (i + 1) * 900000}

RECURSIVE LevelSum(_)
LevelSum(S) ==
    IF S = {} THEN 0
    ELSE LET k == CHOOSE x \in S : TRUE
         IN  LevelAt(dayReports, k) + LevelSum(S \ {k})

(* C2: for every vote list and every dayStartMs both series builders       *)
(* return exactly 96 buckets, indexed 0..95.                               *)
C2_NinetySixBuckets ==
    /\ Built => DOMAIN line[1] = 0 .. 95
    /\ BuiltDir => DOMAIN lineDir[1] = 0 .. 95

(* two reports, both outside the day *)
C2_Witness ==
    /\ Built /\ BuiltDir
    /\ Len(dayReports) = 2
    /\ ~InDay(1) /\ ~InDay(2)
    /\ Cardinality(DOMAIN line[1]) = 96
    /\ Cardinality(DOMAIN lineDir[1]) = 96

(* C9: a vote with timestampMs < dayStartMs or timestampMs >= dayStartMs + *)
(* 96*900000 contributes to no bucket's count or sum: no bucket holds more *)
(* than the in-day votes of its quarter of an hour.                        *)
C9_OutOfDayDiscarded ==
    /\ Built => \A i \in DOMAIN line[1] :
                    /\ line[1][i].count <= Cardinality(VotesIn(i))
                    /\ line[1][i].sum <= LevelSum(VotesIn(i))
    /\ BuiltDir => \A i \in DOMAIN lineDir[1] :
                    /\ lineDir[1][i].count <= Cardinality(VotesIn(i))
                    /\ lineDir[1][i].sum <= LevelSum(VotesIn(i))

(* one report a millisecond before the day, one exactly at its end *)
C9_Witness ==
    /\ Built /\ BuiltDir
    /\ Len(dayReports) = 2
    /\ dayReports[1].createdAtMs = startDayMs - 1
    /\ dayReports[2].createdAtMs = startDayMs + 96 * 900000
    /\ dayReports[1].waitLevel = 4 /\ dayReports[2].waitLevel = 4
    /\ \A i \in 0 .. 95 : line[1][i].count = 0 /\ line[1][i].sum = 0
    /\ \A i \in 0 .. 95 : lineDir[1][i].count = 0 /\ lineDir[1][i].sum = 0

(* C10: every vote with dayStartMs <= timestampMs < dayStartMs + 96*900000 *)
(* is counted in exactly one bucket, that of index                         *)
(* floor((timestampMs - dayStartMs) / 900000), adding 1 to its count and   *)
(* its clamped level to its sum; the smoothed output carries these sums    *)
(* and counts.                                                             *)
C10_InDayCountedOnce ==
    Built => \A i \in 0 .. 95 :
                /\ line[1][i].count = Cardinality(VotesIn(i))
                /\ line[1][i].sum = LevelSum(VotesIn(i))

(* two in-day reports in the first bucket, at its first and last instant *)
C10_Witness ==
    /\ Built
    /\ Len(dayReports) = 2
    /\ dayReports[1].createdAtMs = startDayMs
    /\ dayReports[2].createdAtMs = startDayMs + 900000 - 1
    /\ dayReports[1].waitLevel = 4 /\ dayReports[2].waitLevel = 2
    /\ line[1][0].count = 2 /\ line[1][0].sum = 5
    /\ line[1][1].count = 0

(* the raw average a returned bucket's own sum and count give *)
Ratio(b) == IF b.count > 0 THEN [num |-> b.sum, den |-> b.count]
            ELSE [num |-> 0, den |-> 1]

(* the fractions x and y are the same number *)
SameFrac(x, y) == x.num * y.den = y.num * x.den

(* (x + y + z) / 3, not reduced *)
Mean3(x, y, z) ==
    [num |-> x.num * y.den * z.den + y.num * x.den * z.den + z.num * x.den * y.den,
     den |-> 3 * x.den * y.den * z.den]

(* the returned avg of bucket i is the mean of the raw averages of the     *)
(* buckets l, i and r of the same array                                    *)
MeanOfRatios(bs, l, i, r) ==
    SameFrac(bs[i].avg, Mean3(Ratio(bs[l]), Ratio(bs[i]), Ratio(bs[r])))

(* C11 as stated: in every returned bucket avg = sum/count when count > 0  *)
(* and avg = 0 when count = 0.                                             *)
C11_AvgIsOwnRatio ==
    /\ Built => \A i \in 0 .. 95 : SameFrac(line[1][i].avg, Ratio(line[1][i]))
    /\ BuiltDir => \A i \in 0 .. 95 : SameFrac(lineDir[1][i].avg, Ratio(lineDir[1][i]))

(* C11: in every bucket the series builder returns, avg is derivable from  *)
(* the sums and counts of the bucket and its two neighbours: it is the     *)
(* mean of their three raw averages sum/count (0 when count = 0), a        *)
(* missing neighbour being replaced by the bucket itself; so an empty      *)
(* bucket with empty neighbours reports avg 0.                             *)
C11_AvgDerivable ==
    /\ Built => \A i \in 0 .. 95 :
           MeanOfRatios(line[1], Max(i - 1, 0), i, Min(i + 1, 95))
    /\ BuiltDir => \A i \in 0 .. 95 :
           MeanOfRatios(lineDir[1], Max(i - 1, 0), i, Min(i + 1, 95))

(* two reports of levels 2 and 3 in the second bucket: its raw average is  *)
(* 5/2; the bucket returns (0 + 5/2 + 0)/3 = 5/6 and the empty third       *)
(* bucket returns 5/6 as well                                              *)
C11_Witness ==
    /\ Built
    /\ Len(dayReports) = 2
    /\ line[1][1].count = 2 /\ line[1][1].sum = 5
    /\ line[1][1].avg = Frac(5, 6)
    /\ line[1][2].count = 0 /\ line[1][2].avg = Frac(5, 6)
    /\ line[1][4].count = 0 /\ line[1][4].avg = Frac(0, 1)

(* the direction a stored report counts for *)
DirOf(k) == IF dayReports[k].dir = "R2L" THEN "R2L" ELSE "L2R"

(* the unsmoothed average of the i-th quarter of an hour, over the in-day  *)
(* reports in S                                                            *)
RawOver(S) == IF S = {} THEN [num |-> 0, den |-> 1]
              ELSE [num |-> LevelSum(S), den |-> Cardinality(S)]
Raw(i) == RawOver(VotesIn(i))
RawDir(i, d) == RawOver({k \in VotesIn(i) : DirOf(k) = d})

(* C12: the smoothed average of bucket 0 is (raw0 + raw0 + raw1)/3 and     *)
(* that of bucket 95 is (raw94 + raw95 + raw95)/3: the missing neighbour   *)
(* is replaced by the bucket's own raw average, not by zero; with only     *)
(* bucket 0 populated, by one vote of level 3, bucket 0's smoothed average *)
(* is (3 + 3 + 0)/3 = 2.                                                   *)
C12_SmoothingEdges ==
    Built =>
        /\ SameFrac(line[1][0].avg, Mean3(Raw(0), Raw(0), Raw(1)))
        /\ SameFrac(line[1][95].avg, Mean3(Raw(94), Raw(95), Raw(95)))
        /\ (/\ Cardinality(VotesIn(0)) = 1
            /\ LevelSum(VotesIn(0)) = 3
            /\ \A i \in 1 .. 95 : VotesIn(i) = {})
           => line[1][0].avg = Frac(2, 1)

(* one report, of level 3 once clamped, in the first bucket, the others    *)
(* empty: bucket 0 returns 2 and bucket 1 returns 1                        *)
C12_Witness ==
    /\ Built
    /\ Len(dayReports) = 1
    /\ dayReports[1].createdAtMs = startDayMs
    /\ LevelAt(dayReports, 1) = 3
    /\ line[1][0].count = 1
    /\ line[1][0].avg = Frac(2, 1)
    /\ line[1][1].avg = Frac(1, 1)

(* C13: smoothing is a single pass over the raw averages: for every i in   *)
(* 1..94 the returned avg of bucket i is (raw[i-1] + raw[i] + raw[i+1])/3, *)
(* raw[] being the unsmoothed per-bucket averages (of the chosen direction *)
(* for the directional builder); no returned value is computed from an     *)
(* already smoothed neighbour.                                             *)
C13_SinglePass ==
    /\ Built => \A i \in 1 .. 94 :
           SameFrac(line[1][i].avg, Mean3(Raw(i - 1), Raw(i), Raw(i + 1)))
    /\ BuiltDir => \A i \in 1 .. 94 :
           SameFrac(lineDir[1][i].avg,
                    Mean3(RawDir(i - 1, dir), RawDir(i, dir), RawDir(i + 1, dir)))

(* a report of level 2 in bucket 0 and one of level 3 in bucket 1: bucket  *)
(* 1 returns (2 + 3 + 0)/3 = 5/3, where the smoothed value 7/3 of bucket 0 *)
(* would have given 16/9                                                   *)
C13_Witness ==
    /\ Built
    /\ Len(dayReports) = 2
    /\ VotesIn(0) = {1} /\ LevelAt(dayReports, 1) = 2
    /\ VotesIn(1) = {2} /\ LevelAt(dayReports, 2) = 3
    /\ line[1][0].avg = Frac(7, 3)
    /\ line[1][1].avg = Frac(5, 3)

-----------------------------------------------------------------------------
(* Properties of the summaries *)

Summed == summary # << >>
SummedHome == daySummary # << >>

(* the reports whose clamped level is l *)
VotesOfLevel(l) == {k \in 1 .. Len(dayReports) : LevelAt(dayReports, k) = l}

(* s is the summary of all of dayReports *)
SummaryOfAll(s) ==
    /\ s.total = Len(dayReports)
    /\ \A l \in 0 .. 3 : s.counts[l] = Cardinality(VotesOfLevel(l))
    /\ s.counts[0] + s.counts[1] + s.counts[2] + s.counts[3] = s.total
    /\ IF dayReports = << >> THEN s.avg = Frac(0, 1)
       ELSE SameFrac(s.avg, [num |-> LevelSum(1 .. Len(dayReports)),
                             den |-> Len(dayReports)])

(* C14: summarizeDayAll and summarizeDayAllDirs count every input vote     *)
(* whatever its timestamp: total is the length of the input, counts[l] the *)
(* number of votes whose clamped level is l, the four counts add up to     *)
(* total, and avg is the sum of the clamped levels divided by total (0 for *)
(* the empty input).                                                       *)
C14_SummaryCountsAll ==
    /\ Summed => SummaryOfAll(summary[1])
    /\ SummedHome => SummaryOfAll(daySummary[1])

(* three reports, two of them stamped before the day, levels -1, 4 and 4:  *)
(* total 3, counts 1, 0, 0, 2 and avg 6/3 = 2                              *)
C14_Witness ==
    /\ Summed /\ SummedHome
    /\ Len(dayReports) = 3
    /\ dayReports[1].waitLevel = -1 /\ dayReports[1].createdAtMs < startDayMs
    /\ dayReports[2].waitLevel = 4 /\ dayReports[2].createdAtMs < startDayMs
    /\ dayReports[3].waitLevel = 4 /\ dayReports[3].createdAtMs = startDayMs
    /\ summary[1].total = 3 /\ daySummary[1].total = 3
    /\ summary[1].counts = [l \in 0 .. 3 |-> IF l = 0 THEN 1 ELSE IF l = 3 THEN 2 ELSE 0]
    /\ summary[1].avg = Frac(2, 1)
    /\ daySummary[1] = summary[1]

-----------------------------------------------------------------------------
(* Properties of the three components on one list of votes *)

(* rs with every level x replaced by max(0, min(3, x)) *)
Clamped(rs) == [i \in DOMAIN rs |-> [rs[i] EXCEPT !.waitLevel = LevelAt(rs, i)]]

(* C15: a vote whose level lies outside 0..3 is never rejected or dropped: *)
(* the estimator, the series builder and the summary treat it as a vote of *)
(* level 0 (below 0) or 3 (above 3), so replacing every level x by         *)
(* max(0, min(3, x)) in the input leaves all three outputs unchanged.      *)
C15_ClampedNotRejected ==
    /\ Called => Out = IF reports = << >> THEN Baseline
                       ELSE smartLevel(Clamped(reports), liveNow)
    /\ Built => line[1] = buildLineBuckets15minAll(Clamped(dayReports), startDayMs)
    /\ Summed => summary[1] = summarizeDayAll(Clamped(dayReports))

(* two current votes of levels -1 and 4: both are counted by the three     *)
(* components, as levels 0 and 3                                           *)
C15_Witness ==
    /\ Called /\ Built /\ Summed
    /\ Len(reports) = 2
    /\ reports[1].waitLevel = -1 /\ reports[2].waitLevel = 4
    /\ dayReports[1].createdAtMs = startDayMs /\ dayReports[2].createdAtMs = startDayMs
    /\ Out.count = 2 /\ Out.buckets[0] = WeightOne /\ Out.buckets[3] = WeightOne
    /\ line[1][0].count = 2 /\ line[1][0].sum = 3
    /\ summary[1].total = 2 /\ summary[1].counts[0] = 1 /\ summary[1].counts[3] = 1

(* a number that is not NaN: a fraction with a positive denominator *)
IsNumber(x) == x.num \in Int /\ x.den \in Nat /\ x.den > 0

(* C17: the estimator, the series builder and the summary never fail: for  *)
(* every list of votes (empty, levels outside 0..3, timestamps before the  *)
(* day, after the day or later than now) each returns a result whose      *)
(* every field is defined.                                                 *)
C17_NeverFails ==
    /\ Called =>
          /\ Out.level \in 0 .. 3
          /\ Out.count = Len(reports)
          /\ Out.confidence \in {"Low", "Medium", "High"}
          /\ \A l \in 0 .. 3 : Out.buckets[l] \in Nat
          /\ IsNumber(Out.avg)
    /\ Built =>
          /\ DOMAIN line[1] = 0 .. 95
          /\ \A i \in 0 .. 95 :
                /\ line[1][i].sum \in Nat
                /\ line[1][i].count \in Nat
                /\ IsNumber(line[1][i].avg)
    /\ Summed =>
          /\ summary[1].total \in Nat
          /\ \A l \in 0 .. 3 : summary[1].counts[l] \in Nat
          /\ IsNumber(summary[1].avg)

(* an old vote of level -1 and a vote of level 4 ahead of the clock and of *)
(* the day: none of the two in the day                                     *)
C17_Witness ==
    /\ Called /\ Built /\ Summed
    /\ Len(reports) = 2
    /\ reports[1].waitLevel = -1 /\ reports[1].createdAtMs = 0
    /\ reports[2].waitLevel = 4 /\ reports[2].createdAtMs > liveNow
    /\ dayReports[1].createdAtMs < startDayMs
    /\ dayReports[2].createdAtMs >= startDayMs + 96 * 900000
    /\ Out.level = 3
    /\ \A i \in 0 .. 95 : line[1][i].count = 0
    /\ summary[1].total = 2

-----------------------------------------------------------------------------
(* Properties of the classifier *)

Classified == avgStatus # << >>

(* the level whose status s is *)
LevelOfStatus(s) ==
    IF s.title = "E lire" THEN 0
    ELSE IF s.title = "E vogel" THEN 1
    ELSE IF s.title = "Mesatare" THEN 2 ELSE 3

(* avgIn is n hundredths *)
AvgIs(n) == avgIn.num * 100 = n * avgIn.den

(* C16: statusFromAvg maps an average with half-open thresholds: avg < 0.5 *)
(* gives level 0, 0.5 <= avg < 1.5 level 1, 1.5 <= avg < 2.5 level 2 and   *)
(* avg >= 2.5 level 3; so 0.49 -> 0, 0.5 -> 1, 1.49 -> 1, 1.5 -> 2,        *)
(* 2.49 -> 2 and 2.5 -> 3.                                                 *)
C16_HalfOpenThresholds ==
    Classified =>
        LET lvl == LevelOfStatus(avgStatus[1])
        IN  /\ 2 * avgIn.num < avgIn.den => lvl = 0
            /\ avgIn.den <= 2 * avgIn.num /\ 2 * avgIn.num < 3 * avgIn.den => lvl = 1
            /\ 3 * avgIn.den <= 2 * avgIn.num /\ 2 * avgIn.num < 5 * avgIn.den => lvl = 2
            /\ 5 * avgIn.den <= 2 * avgIn.num => lvl = 3
            /\ AvgIs(49) => lvl = 0
            /\ AvgIs(50) => lvl = 1
            /\ AvgIs(149) => lvl = 1
            /\ AvgIs(150) => lvl = 2
            /\ AvgIs(249) => lvl = 2
            /\ AvgIs(250) => lvl = 3

(* the average 2.5, classified as the fourth status *)
C16_Witness ==
    /\ Classified
    /\ avgIn = [num |-> 5, den |-> 2]
    /\ avgStatus[1].title = "E ngarkuar"

(* the level the home screen's status stands for *)
LevelOfDayStatus(s) ==
    IF s.title = "E lire" THEN 0
    ELSE IF s.title = "E vogel" THEN 1
    ELSE IF s.title = "Mesatare" THEN 2 ELSE 3

(* avgIn lies in [0, 3] *)
AvgInRange == 0 <= avgIn.num /\ avgIn.num <= 3 * avgIn.den

(* C24: the two average-to-status classifiers agree: for every average a   *)
(* in [0,3], dayStatusFromAvg (clamp(round(a),0,3), home screen) selects   *)
(* the same level as statusFromAvg's half-open thresholds (chart screen),  *)
(* including at the boundaries 0.5, 1.5 and 2.5.                           *)
C24_ClassifiersAgree ==
    (Classified /\ dayStatus # << >> /\ AvgInRange) =>
        /\ LevelOfDayStatus(dayStatus[1]) = LevelOfStatus(avgStatus[1])
        /\ dayStatus[1].title = avgStatus[1].title
        /\ dayStatus[1].emoji = avgStatus[1].emoji

(* the average 1.5, classified by both as the third status *)
C24_Witness ==
    /\ Classified /\ dayStatus # << >>
    /\ avgIn = [num |-> 3, den |-> 2]
    /\ dayStatus[1].title = "Mesatare"
    /\ avgStatus[1].title = "Mesatare"

-----------------------------------------------------------------------------
(* Properties of the directional builder and summary *)

SummedDir == summaryDir # << >>

(* the reports of rs whose direction is d, one without a direction         *)
(* counting as L2R                                                         *)
OfDir(rs, d) ==
    SelectSeq(rs, LAMBDA r : IF d = "R2L" THEN r.dir = "R2L" ELSE r.dir # "R2L")

(* C20: directional segmentation is a pure pre-filter: for every vote      *)
(* list, day start and direction d, buildLineBuckets15min(votes, start, d) *)
(* equals buildLineBuckets15minAll applied to the votes whose direction is *)
(* d (a vote without a direction counting as L2R), and                     *)
(* summarizeDay(votes, d) equals summarizeDayAll of the same filtered      *)
(* list.                                                                   *)
C20_DirectionIsPreFilter ==
    /\ BuiltDir =>
          lineDir[1] = buildLineBuckets15minAll(OfDir(dayReports, dir), startDayMs)
    /\ SummedDir =>
          summaryDir[1] = summarizeDayAll(OfDir(dayReports, dir))

(* a report without a direction and a report for R2L in the first bucket,  *)
(* built and summed for L2R: only the first is counted                     *)
C20_Witness ==
    /\ BuiltDir /\ SummedDir
    /\ dir = "L2R"
    /\ Len(dayReports) = 2
    /\ dayReports[1].dir = "none" /\ dayReports[1].waitLevel = 4
    /\ dayReports[2].dir = "R2L" /\ dayReports[2].waitLevel = 1
    /\ dayReports[1].createdAtMs = startDayMs
    /\ dayReports[2].createdAtMs = startDayMs
    /\ lineDir[1][0].count = 1 /\ lineDir[1][0].sum = 3
    /\ summaryDir[1].total = 1 /\ summaryDir[1].counts[3] = 1

-----------------------------------------------------------------------------
(* Properties of submit *)

(* C18: one vote per minute per device per border: under any sequence and  *)
(* interleaving of calls of submit on one device, a call started while an  *)
(* earlier one is awaiting storage or the database included, any two       *)
(* reports written by addDoc for the same border have createdAtMs at least *)
(* 60 000 ms apart.                                                        *)
C18_OneVotePerMinute ==
    \A i \in DOMAIN db : \A j \in DOMAIN db :
        i < j /\ db[i].borderId = db[j].borderId
            => Abs(db[j].createdAtMs - db[i].createdAtMs) >= 60000

(* no call of submit and no call of getLastVoteLevel is pending, and the   *)
(* last render and its effects are those of the border selected           *)
Settled ==
    /\ \A c \in DOMAIN calls : calls[c].pc \in {"idle", "done"}
    /\ levelReads = {}
    /\ closure.selected = selected
    /\ levelEffect = <<selected>>

(* C26: once all pending storage reads and submit calls have completed,    *)
(* the displayed last-vote level equals the last-vote level stored for the *)
(* currently selected border (or is empty when none is stored), under any  *)
(* interleaving of border switches, completions of getLastVoteLevel and    *)
(* completions of submit.                                                  *)
C26_ShownLevelIsStoredLevel ==
    Settled => lastVoteLevel = shownLevel(secureStore[lastVoteLevelKey(selected)])

(* the call c of submit waits for a promise *)
InProgress(c) ==
    calls[c].pc \in {"getLastVoteMs", "addDoc", "setLastVoteMs", "setLastVoteLevel"}

(* the call c of submit ends with this step by the rejection of addDoc *)
AddDocFails(c) == calls[c].pc = "addDoc" /\ calls'[c].pc = "done"

(* C27: if writing the report (addDoc) fails during submit, the stored     *)
(* last-vote time, the stored last-vote level and the displayed last-vote  *)
(* level for that border are all left unchanged, so that a failed          *)
(* submission never starts the cooldown.                                   *)
C27_FailedWriteLeavesNoTrace ==
    [][\A c \in DOMAIN calls :
          AddDocFails(c) =>
              /\ secureStore' = secureStore
              /\ lastVoteLevel' = lastVoteLevel
              /\ db' = db
              /\ tooSoon(getLastVoteMs(calls[c].borderId)', nowMs')
                    = tooSoon(getLastVoteMs(calls[c].borderId), nowMs)]_vars

(* a call passed the cooldown test a whole cooldown after the vote of the  *)
(* earlier session and ended, no report was written and the last-vote time *)
(* and level stored are those of the earlier session                       *)
C27_Witness ==
    \E c \in DOMAIN calls :
        /\ calls[c].pc = "done"
        /\ calls[c].now = FirstNowMs + TickMs
        /\ calls[c].borderId = "HANI_I_ELEZIT"
        /\ calls[c].waitLevel = 0
        /\ db = << >>
        /\ secureStore[lastVoteKey("HANI_I_ELEZIT")] = <<FirstNowMs - TickMs>>
        /\ secureStore[lastVoteLevelKey("HANI_I_ELEZIT")] = <<3>>
        /\ lastVoteLevel = << >>
        /\ ~submitting

-----------------------------------------------------------------------------
(* Properties of the subscription *)

(* C19: at every moment the vote list the screen passes to the estimator,  *)
(* the series builder and the summary holds only reports whose borderId is *)
(* the border selected, also between a change of the selected border and   *)
(* the first snapshot of the new subscription.                             *)
C19_ListOfSelectedBorder ==
    \A k \in DOMAIN dayReports : dayReports[k].borderId = closure.selected

-----------------------------------------------------------------------------
(* Properties of the chart screen *)

(* the sum of count over the buckets 0 .. n *)
RECURSIVE CountUpTo(_, _)
CountUpTo(b, n) == IF n < 0 THEN 0 ELSE b[n].count + CountUpTo(b, n - 1)

(* C25: on the chart screen the series and the summary cover the same      *)
(* votes: in every reachable state the sum of count over the 96 buckets    *)
(* equals summary.total, including after local midnight passes while the   *)
(* screen stays mounted and for reports whose client timestamp lies beyond *)
(* the end of the day.                                                     *)
C25_SeriesCoversSummary ==
    (Built /\ Summed) => CountUpTo(line[1], LINE_POINTS - 1) = summary[1].total

-----------------------------------------------------------------------------
(* Properties of the live window *)

(* the age of the k-th live report now *)
LiveAge(k) == nowMs - liveReports[k].createdAtMs

-----------------------------------------------------------------------------
(* Properties of the traffic cache and the traffic effect *)

AwayFromHan == apiEffect # << >> /\ ~apiEffect[1].isHan

ApiCleared == apiTraffic = << >> /\ apiError = << >> /\ apiLoading = FALSE

(* C29 as stated: after the selected border changes from HANI_I_ELEZIT to  *)
(* another border and the traffic effect has re-run, apiTraffic and        *)
(* apiError are null and apiLoading is false, and they stay so until       *)
(* HANI_I_ELEZIT is selected again: a request started before the switch    *)
(* that completes or fails afterwards changes none of them, and the        *)
(* 60-second refresh timer no longer fires.                                *)
C29_ClearedAndNoTimer ==
    AwayFromHan => (ApiCleared /\ ~apiEffect[1].fired)

(* C29, amended: the same, except that the 60-second interval, which the   *)
(* re-run effect sets up again, still fires: each firing makes no API      *)
(* request and sets the three values to null, null and false again.        *)
C29_ClearedAndNoRequest ==
    AwayFromHan =>
        /\ ApiCleared
        /\ \A c \in DOMAIN apiCalls :
              apiCalls[c].pc = "fetch" => apiCalls[c].cancelled

(* a request made for HANI_I_ELEZIT resolved after the switch, and the     *)
(* interval of the re-run effect has fired                                 *)
C29_Witness ==
    /\ AwayFromHan
    /\ apiEffect[1].fired
    /\ \E c \in DOMAIN apiCalls : apiCalls[c].pc = "done" /\ apiCalls[c].cancelled
    /\ \E c \in DOMAIN apiCalls : apiCalls[c].pc = "failed" /\ apiCalls[c].cancelled
    /\ apiCache.data # << >>
    /\ ApiCleared

=============================================================================
